---------------------------- MODULE Spec2Model ----------------------------
(***************************************************************************)
(* Model of the JobSpy API request boundary (src/app/main.py): the         *)
(* JobSearchRequest parameter model, clean_search_params,                  *)
(* convert_dataframe_to_dict and the POST /search handler search_jobs,     *)
(* with several requests in flight at once.                                *)
(*                                                                         *)
(* Not modelled: the wall-clock execution_time (time.time() differences),  *)
(* logging, the GET endpoints, and the JSON serialisation FastAPI performs *)
(* after the handler has returned.                                         *)
(***************************************************************************)
EXTENDS Integers, Sequences, FiniteSets, TLC

(***************************************************************************)
(* Python / JSON values, tagged with their type so that 0, False, [] and   *)
(* None stay four different values.                                        *)
(***************************************************************************)
None == [t |-> "none"]
NaN == [t |-> "nan"]
IntV(n) == [t |-> "int", v |-> n]
BoolV(b) == [t |-> "bool", v |-> b]
StrV(s) == [t |-> "str", v |-> s]
FloatV(n) == [t |-> "float", v |-> n]
ListV(l) == [t |-> "list", v |-> l]

\* Python truthiness of a value, as `if v` would test it.
Truthy(v) ==
    CASE v.t = "none" -> FALSE
      [] v.t = "int" -> v.v # 0
      [] v.t = "bool" -> v.v
      [] v.t = "str" -> v.v # ""
      [] v.t = "list" -> Len(v.v) # 0
      [] OTHER -> TRUE

(***************************************************************************)
(* Bounds of the model.                                                    *)
(***************************************************************************)
\* Largest number of rows in a table the engine returns.
MaxRows == 2

\* The request slots that can be in flight at the same time.
Reqs == {"r1", "r2"}

(***************************************************************************)
(* Parameter model: class JobSearchRequest.                                *)
(***************************************************************************)
ResultsWantedDefault == 20
ResultsWantedMin == 1
ResultsWantedMax == 1000
DistanceDefault == 50
VerboseDefault == 1
VerboseMin == 0
VerboseMax == 2

Fields ==
    {"site_name", "search_term", "google_search_term", "location",
     "results_wanted", "hours_old", "job_type", "is_remote", "distance",
     "country_indeed", "easy_apply", "description_format",
     "linkedin_fetch_description", "linkedin_company_ids", "offset",
     "enforce_annual_salary", "proxies", "ca_cert", "verbose"}

\* The annotation of each field, without its Optional[...].
FieldType(k) ==
    CASE k \in {"site_name", "proxies"} -> "list_str"
      [] k = "linkedin_company_ids" -> "list_int"
      [] k \in {"results_wanted", "hours_old", "distance", "offset", "verbose"} -> "int"
      [] k \in {"is_remote", "easy_apply", "linkedin_fetch_description",
                "enforce_annual_salary"} -> "bool"
      [] OTHER -> "str"

\* Variant: is_remote defaulting to False instead of None.
FieldDefaultWrong(k) ==
    CASE k = "site_name" -> ListV(<<StrV("indeed"), StrV("linkedin"), StrV("glassdoor")>>)
      [] k = "results_wanted" -> IntV(ResultsWantedDefault)
      [] k = "distance" -> IntV(DistanceDefault)
      [] k = "country_indeed" -> StrV("USA")
      [] k = "description_format" -> StrV("markdown")
      [] k = "linkedin_fetch_description" -> BoolV(FALSE)
      [] k = "verbose" -> IntV(VerboseDefault)
      [] k = "is_remote" -> BoolV(FALSE)
      [] OTHER -> None

\* Field(default=...) of each field.
FieldDefault(k) ==
    CASE k = "site_name" -> ListV(<<StrV("indeed"), StrV("linkedin"), StrV("glassdoor")>>)
      [] k = "results_wanted" -> IntV(ResultsWantedDefault)
      [] k = "distance" -> IntV(DistanceDefault)
      [] k = "country_indeed" -> StrV("USA")
      [] k = "description_format" -> StrV("markdown")
      [] k = "linkedin_fetch_description" -> BoolV(FALSE)
      [] k = "verbose" -> IntV(VerboseDefault)
      [] OTHER -> None

\* Whether a JSON value has the annotated type (values that pydantic would
\* coerce, such as "5" for an int, are not among the inputs of the model).
TypeOk(ty, v) ==
    CASE ty = "int" -> v.t = "int"
      [] ty = "bool" -> v.t = "bool"
      [] ty = "str" -> v.t = "str"
      [] ty = "list_str" ->
            v.t = "list" /\ \A i \in 1..Len(v.v) : v.v[i].t = "str"
      [] ty = "list_int" ->
            v.t = "list" /\ \A i \in 1..Len(v.v) : v.v[i].t = "int"

\* Variant: results_wanted without its le=1000.
RangeOkNoCeiling(k, n) ==
    /\ k = "results_wanted" => ResultsWantedMin <= n
    /\ k = "verbose" => VerboseMin <= n /\ n <= VerboseMax

\* Variant: results_wanted without its ge=1.
RangeOkNoFloor(k, n) ==
    /\ k = "results_wanted" => n <= ResultsWantedMax
    /\ k = "verbose" => VerboseMin <= n /\ n <= VerboseMax

\* The ge= / le= constraints: only results_wanted and verbose have them.
RangeOk(k, n) ==
    /\ k = "results_wanted" => ResultsWantedMin <= n /\ n <= ResultsWantedMax
    /\ k = "verbose" => VerboseMin <= n /\ n <= VerboseMax

\* Optional[T]: an explicit null is accepted; otherwise type, then range.
FieldValid(k, v) ==
    \/ v = None
    \/ /\ TypeOk(FieldType(k), v)
       /\ v.t = "int" => RangeOk(k, v.v)

\* The fields of a request body that fail validation.
ValidationErrors(body) == {k \in DOMAIN body : ~FieldValid(k, body[k])}

\* The validated model: given fields as sent, the others at their default.
ParseRequest(body) ==
    [k \in Fields |-> IF k \in DOMAIN body THEN body[k] ELSE FieldDefault(k)]

\* request.model_dump(): every field, unset ones as None.
model_dump(request) == [k \in Fields |-> request[k]]

(***************************************************************************)
(* Utility functions.                                                      *)
(***************************************************************************)
\* Variant: {k: v for k, v in params.items() if v}.
clean_search_params_truthy(params) ==
    [k \in {f \in DOMAIN params : Truthy(params[f])} |-> params[k]]

\* {k: v for k, v in params.items() if v is not None}
clean_search_params(params) ==
    [k \in {f \in DOMAIN params : params[f] # None} |-> params[k]]

\* The table the engine returns: a sequence of rows over these columns.
Columns == {"title", "min_amount"}

\* The dtype pandas gives each column.
Dtype(c) == IF c = "min_amount" THEN "float64" ELSE "object"

\* pd.notnull of one cell.
notnull(cell) == cell.t \notin {"none", "nan"}

\* df.where(pd.notnull(df), None) on one cell.  In an object column the
\* replacement is None.  In a float64 column the outcome depends on the
\* installed pandas: releases before 1.3 cast the column to object and store
\* None, later releases keep the dtype and store its own NA value, NaN.
where_none(c, cell, keepsDtype) ==
    IF notnull(cell) THEN cell
    ELSE IF Dtype(c) = "float64" /\ keepsDtype THEN NaN
    ELSE None

\* convert_dataframe_to_dict: df.where(...) then df.to_dict("records").
convert_dataframe_to_dict(df, keepsDtype) ==
    [i \in 1..Len(df) |-> [c \in Columns |-> where_none(c, df[i][c], keepsDtype)]]

(***************************************************************************)
(* Inputs: the request bodies clients send and what the engine does.       *)
(***************************************************************************)
\* A JSON request body: the fields the client gave, each with its value.
Bodies ==
    { <<>>,
      [search_term |-> StrV("software engineer"), location |-> StrV("Austin, TX"),
       results_wanted |-> IntV(5), site_name |-> ListV(<<StrV("indeed")>>)],
      [hours_old |-> IntV(0), is_remote |-> BoolV(FALSE), proxies |-> ListV(<<>>),
       search_term |-> StrV("")],
      [site_name |-> ListV(<<>>)],
      [site_name |-> ListV(<<StrV("monster")>>)],
      [results_wanted |-> None, verbose |-> None, site_name |-> None],
      [results_wanted |-> IntV(ResultsWantedMax), verbose |-> IntV(VerboseMin)],
      [results_wanted |-> IntV(ResultsWantedMin), verbose |-> IntV(VerboseMax)],
      [results_wanted |-> IntV(2000)],
      [results_wanted |-> IntV(ResultsWantedMax + 1)],
      [results_wanted |-> IntV(ResultsWantedMin - 1), search_term |-> StrV("nurse")],
      [verbose |-> IntV(VerboseMax + 1)],
      [verbose |-> IntV(VerboseMin - 1), results_wanted |-> IntV(5)],
      [distance |-> ListV(<<IntV(5)>>)] }

\* The rows an engine table is made of: a complete row, a row whose object
\* cell is missing and a row whose float64 cell is missing.
Rows ==
    { [title |-> StrV("dev"), min_amount |-> FloatV(50000)],
      [title |-> NaN, min_amount |-> FloatV(60000)],
      [title |-> StrV("qa"), min_amount |-> NaN] }

\* A DataFrame: its rows, in the engine's order.
DataFrame(rows) == [t |-> "DataFrame", rows |-> rows]

DataFrames == {DataFrame(rows) : rows \in UNION {[1..n -> Rows] : n \in 0..MaxRows}}

\* What scrape_jobs returns: a table, or something that is no DataFrame.
NotAFrame == [t |-> "none"]
Returns == DataFrames \cup {NotAFrame}

\* The exceptions scrape_jobs raises in the model.
Faults ==
    { [kind |-> "ImportError", msg |-> "No module named 'tls_client'"],
      [kind |-> "ValueError", msg |-> "Invalid country string"] }

\* Raised by `from jobspy import scrape_jobs` when jobspy is not installed.
JobSpyMissing == [kind |-> "ImportError", msg |-> "No module named 'jobspy'"]

\* Raised by df.where when the engine's result is no DataFrame.
ConvertFault ==
    [kind |-> "AttributeError", msg |-> "'NoneType' object has no attribute 'where'"]

(***************************************************************************)
(* State.                                                                  *)
(***************************************************************************)
VARIABLES
    engineInstalled,  \* whether `from jobspy import scrape_jobs` succeeds
    whereKeepsDtype,  \* whether the installed pandas keeps a column's dtype in where()
    pc,               \* each request's position
    body,             \* the JSON body each request was sent with
    request,          \* the validated JobSearchRequest
    search_params,    \* the handler's local search_params
    engineArgs,       \* the keyword arguments scrape_jobs was called with
    engineCalls,      \* how many times scrape_jobs was called for the request
    engineOutcome,    \* what that call did: returned a result or raised
    response          \* the HTTP response of the request

vars == <<engineInstalled, whereKeepsDtype, pc, body, request, search_params,
          engineArgs, engineCalls, engineOutcome, response>>

\* The value of a per-request variable that is not set.
Unset == [t |-> "unset"]

Init ==
    /\ engineInstalled \in BOOLEAN
    /\ whereKeepsDtype \in BOOLEAN
    /\ pc = [r \in Reqs |-> "idle"]
    /\ body = [r \in Reqs |-> Unset]
    /\ request = [r \in Reqs |-> Unset]
    /\ search_params = [r \in Reqs |-> Unset]
    /\ engineArgs = [r \in Reqs |-> Unset]
    /\ engineCalls = [r \in Reqs |-> 0]
    /\ engineOutcome = [r \in Reqs |-> Unset]
    /\ response = [r \in Reqs |-> Unset]

(***************************************************************************)
(* Responses.                                                              *)
(***************************************************************************)
\* FastAPI's answer to a body that fails the parameter model.
ValidationErrorResponse(fields) == [status |-> 422, detail |-> fields]

\* Variant: total_jobs counting the distinct records only.
JobSearchResponseDistinct(jobs_list, params) ==
    [status |-> 200,
     success |-> TRUE,
     total_jobs |-> Cardinality({jobs_list[i] : i \in 1..Len(jobs_list)}),
     jobs |-> jobs_list,
     search_params |-> params,
     message |-> <<"Successfully found ", Len(jobs_list), " jobs">>]

\* return JobSearchResponse(success=True, total_jobs=len(jobs_list), ...)
JobSearchResponse(jobs_list, params) ==
    [status |-> 200,
     success |-> TRUE,
     total_jobs |-> Len(jobs_list),
     jobs |-> jobs_list,
     search_params |-> params,
     message |-> <<"Successfully found ", Len(jobs_list), " jobs">>]

\* Variant: a failure answered with an empty best-effort envelope.
HandleExceptionBestEffort(e) ==
    [status |-> 200, success |-> FALSE, total_jobs |-> 0, jobs |-> <<>>,
     search_params |-> <<>>, message |-> <<"Search failed: ", e.msg>>]

\* The two except clauses of search_jobs: an ImportError from anywhere in
\* the try block gives the fixed detail, any other Exception its message.
HandleException(e) ==
    IF e.kind = "ImportError"
    THEN [status |-> 500, detail |-> <<"JobSpy library not available">>]
    ELSE [status |-> 500, detail |-> <<"Search failed: ", e.msg>>]

(***************************************************************************)
(* Operations.                                                             *)
(***************************************************************************)
\* A client sends POST /search with body b.
Submit(r, b) ==
    /\ pc[r] = "idle"
    /\ pc' = [pc EXCEPT ![r] = "received"]
    /\ body' = [body EXCEPT ![r] = b]
    /\ UNCHANGED <<engineInstalled, whereKeepsDtype, request, search_params,
                   engineArgs, engineCalls, engineOutcome, response>>

\* FastAPI validates the body against JobSearchRequest before the handler.
Validate(r) ==
    /\ pc[r] = "received"
    /\ IF ValidationErrors(body[r]) # {}
       THEN /\ pc' = [pc EXCEPT ![r] = "done"]
            /\ response' = [response EXCEPT
                    ![r] = ValidationErrorResponse(ValidationErrors(body[r]))]
            /\ UNCHANGED request
       ELSE /\ pc' = [pc EXCEPT ![r] = "validated"]
            /\ request' = [request EXCEPT ![r] = ParseRequest(body[r])]
            /\ UNCHANGED response
    /\ UNCHANGED <<engineInstalled, whereKeepsDtype, body, search_params,
                   engineArgs, engineCalls, engineOutcome>>

\* Variant: the parameters kept in one module-level slot shared by all requests.
SearchParamsShared(r) ==
    clean_search_params(model_dump(request[CHOOSE q \in Reqs : request[q] # Unset]))

\* The search_params of request r (the handler's line 142).
SearchParamsOf(r) == clean_search_params(model_dump(request[r]))

\* search_jobs up to the call of scrape_jobs: the import, then the
\* normalised parameters, then the call.
StartSearch(r) ==
    /\ pc[r] = "validated"
    /\ IF ~engineInstalled
       THEN /\ pc' = [pc EXCEPT ![r] = "done"]
            /\ response' = [response EXCEPT ![r] = HandleException(JobSpyMissing)]
            /\ UNCHANGED <<search_params, engineArgs, engineCalls>>
       ELSE /\ pc' = [pc EXCEPT ![r] = "scraping"]
            /\ search_params' = [search_params EXCEPT ![r] = SearchParamsOf(r)]
            /\ engineArgs' = [engineArgs EXCEPT ![r] = SearchParamsOf(r)]
            /\ engineCalls' = [engineCalls EXCEPT ![r] = @ + 1]
            /\ UNCHANGED response
    /\ UNCHANGED <<engineInstalled, whereKeepsDtype, body, request, engineOutcome>>

\* scrape_jobs returns res; the handler converts it and builds the response.
EngineReturns(r, res) ==
    /\ pc[r] = "scraping"
    /\ pc' = [pc EXCEPT ![r] = "done"]
    /\ engineOutcome' = [engineOutcome EXCEPT ![r] = [kind |-> "returned", value |-> res]]
    /\ response' = [response EXCEPT ![r] =
            IF res.t # "DataFrame"
            THEN HandleException(ConvertFault)
            ELSE JobSearchResponse(convert_dataframe_to_dict(res.rows, whereKeepsDtype),
                                   search_params[r])]
    /\ UNCHANGED <<engineInstalled, whereKeepsDtype, body, request, search_params,
                   engineArgs, engineCalls>>

\* Variant: the handler calls scrape_jobs again after a fault.
EngineRaisesRetry(r, e) ==
    /\ pc[r] = "scraping"
    /\ engineCalls[r] < 2
    /\ engineCalls' = [engineCalls EXCEPT ![r] = @ + 1]
    /\ UNCHANGED <<engineInstalled, whereKeepsDtype, pc, body, request, search_params,
                   engineArgs, engineOutcome, response>>

\* scrape_jobs raises e; the handler's except clauses answer.
EngineRaises(r, e) ==
    /\ pc[r] = "scraping"
    /\ pc' = [pc EXCEPT ![r] = "done"]
    /\ engineOutcome' = [engineOutcome EXCEPT ![r] = [kind |-> "raised", fault |-> e]]
    /\ response' = [response EXCEPT ![r] = HandleException(e)]
    /\ UNCHANGED <<engineInstalled, whereKeepsDtype, body, request, search_params,
                   engineArgs, engineCalls>>

\* The response is sent and everything the request held is dropped.
Close(r) ==
    /\ pc[r] = "done"
    /\ pc' = [pc EXCEPT ![r] = "idle"]
    /\ body' = [body EXCEPT ![r] = Unset]
    /\ request' = [request EXCEPT ![r] = Unset]
    /\ search_params' = [search_params EXCEPT ![r] = Unset]
    /\ engineArgs' = [engineArgs EXCEPT ![r] = Unset]
    /\ engineCalls' = [engineCalls EXCEPT ![r] = 0]
    /\ engineOutcome' = [engineOutcome EXCEPT ![r] = Unset]
    /\ response' = [response EXCEPT ![r] = Unset]
    /\ UNCHANGED <<engineInstalled, whereKeepsDtype>>

Next ==
    \/ \E r \in Reqs, b \in Bodies : Submit(r, b)
    \/ \E r \in Reqs : Validate(r)
    \/ \E r \in Reqs : StartSearch(r)
    \/ \E r \in Reqs, res \in Returns : EngineReturns(r, res)
    \/ \E r \in Reqs, e \in Faults : EngineRaises(r, e)
    \/ \E r \in Reqs : Close(r)

Spec == Init /\ [][Next]_vars

\* The shape of the state.
TypeInv ==
    /\ pc \in [Reqs -> {"idle", "received", "validated", "scraping", "done"}]
    /\ \A r \in Reqs : engineCalls[r] \in 0..2

(***************************************************************************)
(* Properties.                                                             *)
(***************************************************************************)
\* The site identifiers GET /sites lists as supported.
SupportedSites ==
    {"linkedin", "indeed", "glassdoor", "zip_recruiter", "google", "bayt", "naukri"}

\* Request r was validated, and the handler has run to its end.
Finished(r) == pc[r] = "done" /\ request[r] # Unset

\* The engine was called for r and raised.
Raised(r) == engineOutcome[r] # Unset /\ engineOutcome[r].kind = "raised"

\* The engine was called for r and returned a table.
ReturnedFrame(r) ==
    /\ engineOutcome[r] # Unset
    /\ engineOutcome[r].kind = "returned"
    /\ engineOutcome[r].value.t = "DataFrame"

\* The search of r failed: no engine, an engine fault, or a conversion fault.
SearchFailedFor(r) == Finished(r) /\ ~ReturnedFrame(r)

\* C1: the normalised parameters of a request hold no key whose value in the
\* dumped request is None, and hold every key whose value is 0, False or an
\* empty list, with that value.
C1_NormalizerDropsOnlyNone ==
    \A r \in Reqs : search_params[r] # Unset =>
        \A k \in Fields :
            /\ request[r][k] = None => k \notin DOMAIN search_params[r]
            /\ request[r][k] \in {IntV(0), BoolV(FALSE), ListV(<<>>)} =>
                   /\ k \in DOMAIN search_params[r]
                   /\ search_params[r][k] = request[r][k]

C1_Witness ==
    \E r \in Reqs :
        /\ search_params[r] # Unset
        /\ request[r]["hours_old"] = IntV(0)
        /\ request[r]["is_remote"] = BoolV(FALSE)
        /\ request[r]["proxies"] = ListV(<<>>)
        /\ request[r]["location"] = None

\* The body gives results_wanted an integer outside [1,1000] or verbose an
\* integer outside [0,2].
OutOfRange(b) ==
    \/ /\ "results_wanted" \in DOMAIN b
       /\ b["results_wanted"].t = "int"
       /\ (b["results_wanted"].v < 1 \/ b["results_wanted"].v > 1000)
    \/ /\ "verbose" \in DOMAIN b
       /\ b["verbose"].t = "int"
       /\ (b["verbose"].v < 0 \/ b["verbose"].v > 2)

\* C2: a request whose results_wanted is an integer outside [1,1000] or whose
\* verbose is an integer outside [0,2] is rejected with a validation error
\* naming the field, never reaches the handler, and the engine is called
\* zero times for it.
C2_OutOfRangeRejected ==
    \A r \in Reqs : (pc[r] # "idle" /\ OutOfRange(body[r])) =>
        /\ pc[r] \in {"received", "done"}
        /\ engineCalls[r] = 0
        /\ request[r] = Unset
        /\ engineArgs[r] = Unset
        /\ pc[r] = "done" =>
               /\ response[r].status = 422
               /\ response[r].detail \cap {"results_wanted", "verbose"} # {}

C2_Witness ==
    \E r \in Reqs :
        /\ pc[r] = "done"
        /\ body[r] = [results_wanted |-> IntV(2000)]
        /\ response[r].status = 422
        /\ response[r].detail = {"results_wanted"}

\* C3: when the engine was called and raised a fault of any kind, the
\* response is the SearchFailed error carrying the fault's message; the fixed
\* EngineUnavailable response is given only when the engine was never called.
C3_EngineFaultIsSearchFailed ==
    \A r \in Reqs : pc[r] = "done" =>
        /\ Raised(r) =>
               /\ response[r].status = 500
               /\ response[r].detail[1] = "Search failed: "
               /\ \E i \in 1..Len(response[r].detail) :
                      response[r].detail[i] = engineOutcome[r].fault.msg
        /\ (/\ response[r].status = 500
            /\ response[r].detail = <<"JobSpy library not available">>) =>
               engineCalls[r] = 0

\* C4: a failed search answers with a server error that has a textual cause
\* and neither jobs nor total_jobs; a response that carries jobs carries one
\* for every row the engine returned.
C4_FailureHasNoJobs ==
    \A r \in Reqs :
        /\ SearchFailedFor(r) =>
               /\ response[r].status = 500
               /\ DOMAIN response[r] = {"status", "detail"}
               /\ Len(response[r].detail) >= 1
        /\ (response[r] # Unset /\ "jobs" \in DOMAIN response[r]) =>
               /\ ReturnedFrame(r)
               /\ Len(response[r].jobs) = Len(engineOutcome[r].value.rows)

C4_Witness ==
    \E r, q \in Reqs :
        /\ SearchFailedFor(r) /\ Raised(r)
        /\ SearchFailedFor(q) /\ ~Raised(q) /\ engineCalls[q] = 1

\* The defaults the parameter model declares, and nothing else.
DeclaredDefaults ==
    [site_name |-> ListV(<<StrV("indeed"), StrV("linkedin"), StrV("glassdoor")>>),
     results_wanted |-> IntV(20),
     verbose |-> IntV(1),
     distance |-> IntV(50),
     country_indeed |-> StrV("USA"),
     description_format |-> StrV("markdown"),
     linkedin_fetch_description |-> BoolV(FALSE)]

\* C5: for an empty request body the parameters passed to the engine are
\* exactly the declared defaults.
C5_EmptyBodyGivesDefaults ==
    \A r \in Reqs : (search_params[r] # Unset /\ body[r] = <<>>) =>
        /\ search_params[r] = DeclaredDefaults
        /\ engineArgs[r] = DeclaredDefaults

C5_Witness ==
    \E r \in Reqs :
        /\ body[r] = <<>>
        /\ pc[r] = "scraping"
        /\ engineArgs[r] = DeclaredDefaults

\* C6 as stated: a validated request has results_wanted an integer in
\* [1,1000], verbose in {0,1,2}, and site_name, when provided, a non-empty
\* list of recognised site identifiers.
C6_ValidatedRequestInvariants ==
    \A r \in Reqs : request[r] # Unset =>
        /\ request[r]["results_wanted"].t = "int"
        /\ request[r]["results_wanted"].v \in 1..1000
        /\ request[r]["verbose"].t = "int"
        /\ request[r]["verbose"].v \in {0, 1, 2}
        /\ request[r]["site_name"] # None =>
               /\ request[r]["site_name"].t = "list"
               /\ Len(request[r]["site_name"].v) > 0
               /\ \A i \in 1..Len(request[r]["site_name"].v) :
                      /\ request[r]["site_name"].v[i].t = "str"
                      /\ request[r]["site_name"].v[i].v \in SupportedSites

\* C6 amended: a validated request has results_wanted null or an integer in
\* [1,1000], verbose null or in {0,1,2}, and site_name null or a list of
\* strings, which may be empty or hold unrecognised identifiers.
C6_ValidatedRequestRanges ==
    \A r \in Reqs : request[r] # Unset =>
        /\ \/ request[r]["results_wanted"] = None
           \/ /\ request[r]["results_wanted"].t = "int"
              /\ request[r]["results_wanted"].v \in 1..1000
        /\ \/ request[r]["verbose"] = None
           \/ /\ request[r]["verbose"].t = "int"
              /\ request[r]["verbose"].v \in {0, 1, 2}
        /\ \/ request[r]["site_name"] = None
           \/ /\ request[r]["site_name"].t = "list"
              /\ \A i \in 1..Len(request[r]["site_name"].v) :
                     request[r]["site_name"].v[i].t = "str"

C6_Witness ==
    \E r, q \in Reqs :
        /\ pc[r] = "scraping"
        /\ request[r]["site_name"] = ListV(<<StrV("monster")>>)
        /\ pc[q] = "scraping"
        /\ request[q]["results_wanted"] = IntV(1000)
        /\ request[q]["verbose"] = IntV(0)

\* C7: in every success response success is true, total_jobs is the length
\* of jobs, and the message is "Successfully found {n} jobs" with that n.
C7_TotalJobsIsLength ==
    \A r \in Reqs : (pc[r] = "done" /\ response[r].status = 200) =>
        /\ response[r].success = TRUE
        /\ response[r].total_jobs = Len(response[r].jobs)
        /\ response[r].message =
               <<"Successfully found ", response[r].total_jobs, " jobs">>

C7_Witness ==
    \E r \in Reqs :
        /\ pc[r] = "done"
        /\ response[r].status = 200
        /\ response[r].total_jobs = 2
        /\ response[r].jobs[1] = response[r].jobs[2]

\* C8: the conversion yields one record per row of the engine's table, in
\* the table's order, with every missing cell None and every other cell
\* unchanged.
C8_MissingCellsBecomeNone ==
    \A r \in Reqs : (pc[r] = "done" /\ ReturnedFrame(r)) =>
        /\ response[r].status = 200
        /\ Len(response[r].jobs) = Len(engineOutcome[r].value.rows)
        /\ \A i \in 1..Len(response[r].jobs) : \A c \in Columns :
               response[r].jobs[i][c] =
                   IF engineOutcome[r].value.rows[i][c].t \in {"none", "nan"}
                   THEN None
                   ELSE engineOutcome[r].value.rows[i][c]

\* C9: the engine is called exactly once for a validated request when it is
\* installed, whether the call returns or raises, never when it is not
\* installed, and never again once the handler has answered.
C9_Calls ==
    \A r \in Reqs :
        /\ engineCalls[r] <= 1
        /\ pc[r] = "scraping" => engineCalls[r] = 1
        /\ (Finished(r) /\ engineInstalled) =>
               engineCalls[r] = 1 /\ engineOutcome[r] # Unset
        /\ (Finished(r) /\ ~engineInstalled) => engineCalls[r] = 0
        /\ ~Finished(r) /\ pc[r] # "scraping" => engineCalls[r] = 0

C9_NoCallAfterAnswer ==
    \A r \in Reqs :
        (pc[r] = "done" /\ pc'[r] # "idle") => engineCalls'[r] = engineCalls[r]

C9_ExactlyOneEngineCall == []C9_Calls /\ [][C9_NoCallAfterAnswer]_vars

C9_Witness ==
    \E r, q \in Reqs :
        /\ Finished(r) /\ Raised(r) /\ engineCalls[r] = 1
        /\ Finished(q) /\ ReturnedFrame(q) /\ engineCalls[q] = 1

\* What the handler makes of a body alone.
ParamsOfBody(b) == clean_search_params(model_dump(ParseRequest(b)))

\* C10: whatever else is in flight, a request's normalised parameters and
\* engine arguments are those of its own body, its success response is made
\* of its own engine result and its own parameters, and two requests with
\* the same body and the same engine outcome get the same response.
C10_RequestsIndependent ==
    \A r \in Reqs :
        /\ search_params[r] # Unset =>
               /\ search_params[r] = ParamsOfBody(body[r])
               /\ engineArgs[r] = ParamsOfBody(body[r])
        /\ (pc[r] = "done" /\ ReturnedFrame(r)) =>
               response[r] =
                   JobSearchResponse(
                       convert_dataframe_to_dict(engineOutcome[r].value.rows,
                                                 whereKeepsDtype),
                       ParamsOfBody(body[r]))
        /\ \A q \in Reqs :
               (/\ pc[r] = "done" /\ pc[q] = "done"
                /\ body[r] = body[q]
                /\ engineOutcome[r] = engineOutcome[q]) =>
                   response[r] = response[q]

C10_Witness ==
    \E r, q \in Reqs :
        /\ pc[r] = "done" /\ ReturnedFrame(r)
        /\ pc[q] = "done" /\ ReturnedFrame(q)
        /\ body[r] # body[q]
        /\ engineOutcome[r] # engineOutcome[q]
        /\ response[r].search_params # response[q].search_params

=============================================================================
